---- MODULE Spec2Model ----
(***************************************************************************)
(* Shopping cart and sequence-based recommendation engine.                 *)
(*                                                                         *)
(* Two implementations live in the repository:                             *)
(*   - 3_Python_Shopping_Cart/shopping_cart.py : ShoppingCart (a list of   *)
(*     Product objects) and the standalone analyze_product_sequences;      *)
(*   - shopping_cart/shop : the Django Cart / CartItem models and the      *)
(*     analyses of shop/recommendations.py.                                *)
(*                                                                         *)
(* SpecCart is the state machine of the standalone ShoppingCart, SpecShop  *)
(* the one of a Django cart.  The analyses are functions of the carts they *)
(* are handed: each has a specification of its own that applies it to      *)
(* every content the carts can have.  `last` holds the name, the arguments *)
(* and the return value of the call that completed last.                   *)
(***************************************************************************)
EXTENDS Integers, Sequences, FiniteSets

VARIABLES
    carts,     \* standalone: the list of ShoppingCart objects, each its _items list
    db,        \* Django: cart_items rows of every Cart, in added_at order
    last,      \* the last completed call: [op, result]
    pass,      \* the analysis pass in progress: next cart to read, its local dict
    instants,  \* history: the contents db went through while the pass ran
    inflight   \* the add_item calls of concurrent requests: position and locals

vars == <<carts, db, last, pass, instants, inflight>>

----------------------------------------------------------------------------
(* Bounds *)

NumCarts == 2      \* standalone carts handed to the analysis
MaxLen == 3        \* items per standalone cart
NumDbCarts == 2    \* Django carts handed to an analysis
NumShopCarts == 1  \* Django carts the cart operations are applied to
MaxItems == 2      \* cart_items rows per Django cart
MaxQty == 2        \* quantity of one cart item
MaxRows == 3       \* cart_items rows per cart handed to an analysis
MaxLimit == 2      \* limit argument of get_product_recommendations
MaxMinFreq == 2    \* min_frequency argument of find_frequently_bought_together
MaxNegLimit == 2   \* size of a negative limit argument
MaxMutations == 2  \* changes of the database while one analysis pass runs

----------------------------------------------------------------------------
(* Python containers *)

None == "None"

\* A dict (and a Counter, a defaultdict) keeps its keys in insertion order: it
\* is modelled as the sequence of its [k, v] entries in that order.
Keys(d) == {d[i].k : i \in DOMAIN d}

Has(d, key) == \E i \in DOMAIN d : d[i].k = key

Get(d, key) == d[CHOOSE i \in DOMAIN d : d[i].k = key].v

\* d[key] = value: an existing key keeps its position, a new key goes last.
Put(d, key, value) ==
    IF Has(d, key)
    THEN [i \in DOMAIN d |-> IF d[i].k = key THEN [k |-> key, v |-> value] ELSE d[i]]
    ELSE Append(d, [k |-> key, v |-> value])

\* counter[key] += 1 (a missing key counts from 0)
Incr(counter, key) ==
    Put(counter, key, (IF Has(counter, key) THEN Get(counter, key) ELSE 0) + 1)

\* Counter(iterable): count the elements in iteration order
RECURSIVE CounterOf(_, _, _)
CounterOf(counter, list, i) ==
    IF i > Len(list) THEN counter
    ELSE CounterOf(Incr(counter, list[i]), list, i + 1)

\* MaxScan with the comparison reversed
RECURSIVE MaxScan_reversed(_, _, _)
MaxScan_reversed(counter, i, best) ==
    IF i > Len(counter) THEN best
    ELSE MaxScan_reversed(counter, i + 1, IF counter[i].v < counter[best].v THEN i ELSE best)

\* MaxScan keeping the last entry with the largest count
RECURSIVE MaxScan_last(_, _, _)
MaxScan_last(counter, i, best) ==
    IF i > Len(counter) THEN best
    ELSE MaxScan_last(counter, i + 1, IF counter[i].v >= counter[best].v THEN i ELSE best)

\* max(entries, key=count): the scan keeps the first entry with the largest count
RECURSIVE MaxScan(_, _, _)
MaxScan(counter, i, best) ==
    IF i > Len(counter) THEN best
    ELSE MaxScan(counter, i + 1, IF counter[i].v > counter[best].v THEN i ELSE best)

\* InsertDesc putting e in front of the entries with the same count
RECURSIVE InsertDesc_unstable(_, _, _)
InsertDesc_unstable(sorted, e, i) ==
    IF i > Len(sorted) THEN Append(sorted, e)
    ELSE IF sorted[i].v <= e.v
         THEN SubSeq(sorted, 1, i - 1) \o <<e>> \o SubSeq(sorted, i, Len(sorted))
         ELSE InsertDesc_unstable(sorted, e, i + 1)

\* InsertDesc sorting ascending
RECURSIVE InsertDesc_ascending(_, _, _)
InsertDesc_ascending(sorted, e, i) ==
    IF i > Len(sorted) THEN Append(sorted, e)
    ELSE IF sorted[i].v > e.v
         THEN SubSeq(sorted, 1, i - 1) \o <<e>> \o SubSeq(sorted, i, Len(sorted))
         ELSE InsertDesc_ascending(sorted, e, i + 1)

\* sorted(entries, key=count, reverse=True): stable, so entries with equal
\* counts keep their relative order.  InsertDesc puts e behind every entry
\* whose count is at least e's.
RECURSIVE InsertDesc(_, _, _)
InsertDesc(sorted, e, i) ==
    IF i > Len(sorted) THEN Append(sorted, e)
    ELSE IF sorted[i].v < e.v
         THEN SubSeq(sorted, 1, i - 1) \o <<e>> \o SubSeq(sorted, i, Len(sorted))
         ELSE InsertDesc(sorted, e, i + 1)

RECURSIVE SortedDesc(_, _, _)
SortedDesc(sorted, entries, i) ==
    IF i > Len(entries) THEN sorted
    ELSE SortedDesc(InsertDesc(sorted, entries[i], 1), entries, i + 1)

Take(list, n) == SubSeq(list, 1, IF n < Len(list) THEN n ELSE Len(list))

\* most_common as the slice sorted(...)[:n], which for a negative n drops the
\* last -n entries instead of selecting nothing
most_common_slice(counter, n) ==
    IF n = 1
    THEN (IF Len(counter) = 0 THEN <<>> ELSE <<counter[MaxScan(counter, 1, 1)]>>)
    ELSE IF n < 0
    THEN SubSeq(SortedDesc(<<>>, counter, 1), 1,
                IF Len(counter) + n > 0 THEN Len(counter) + n ELSE 0)
    ELSE Take(SortedDesc(<<>>, counter, 1), n)

\* Counter.most_common(n) is heapq.nlargest(n, items, key=count): max() for
\* n = 1, otherwise the n first entries of the stable descending sort; n <= 0
\* selects nothing.
most_common(counter, n) ==
    IF n = 1
    THEN (IF Len(counter) = 0 THEN <<>> ELSE <<counter[MaxScan(counter, 1, 1)]>>)
    ELSE IF n <= 0 THEN <<>>
    ELSE Take(SortedDesc(<<>>, counter, 1), n)

----------------------------------------------------------------------------
(* Calls in progress *)

\* no analysis pass is running: `at` is the position of the cart the pass
\* reads next, 0 when there is no pass
NoPass == [at |-> 0, product_followers |-> <<>>]

\* the history of db after a step that leaves it as d: recorded while a pass runs
Observed(d) == IF pass.at = 0 THEN instants ELSE instants \cup {d}

----------------------------------------------------------------------------
(* 3_Python_Shopping_Cart/shopping_cart.py *)

\* A Product is identified by its product_id; the other fields (price, weight,
\* title) are not read by the cart operations modelled here.
ProductIds == {"A", "B", "C"}

NotAProduct == "not a Product"

Init ==
    /\ carts = [c \in 1..NumCarts |-> <<>>]
    /\ db = [c \in 1..NumDbCarts |-> <<>>]
    /\ last = [op |-> "init", result |-> None]
    /\ pass = NoPass
    /\ instants = {}
    /\ inflight = <<>>

get_product_sequence(items) == [i \in DOMAIN items |-> items[i]]

get_item_count(items) == Len(items)

\* add_product inserting the product at the front of the list
add_product_front(c, product) ==
    /\ product \in ProductIds
    /\ Len(carts[c]) < MaxLen
    /\ carts' = [carts EXCEPT ![c] = <<product>> \o @]
    /\ last' = [op |-> "add_product", result |-> None]
    /\ UNCHANGED <<db, pass, instants, inflight>>

\* add_product skipping a product whose product_id is already in the cart
add_product_unique(c, product) ==
    /\ product \in ProductIds
    /\ Len(carts[c]) < MaxLen
    /\ carts' = [carts EXCEPT ![c] =
                    IF \E i \in DOMAIN @ : @[i] = product THEN @ ELSE Append(@, product)]
    /\ last' = [op |-> "add_product", result |-> None]
    /\ UNCHANGED <<db, pass, instants, inflight>>

add_product(c, product) ==
    /\ product \in ProductIds
    /\ Len(carts[c]) < MaxLen
    /\ carts' = [carts EXCEPT ![c] = Append(@, product)]
    /\ last' = [op |-> "add_product", result |-> None]
    /\ UNCHANGED <<db, pass, instants, inflight>>

add_product_TypeError(c, product) ==
    /\ product \notin ProductIds
    /\ last' = [op |-> "add_product", result |-> "TypeError"]
    /\ UNCHANGED <<carts, db, pass, instants, inflight>>

\* index of the first item with the given product_id, 0 when there is none
\* FirstIndex scanning from the end of the list
RECURSIVE FirstIndex_last(_, _, _)
FirstIndex_last(items, product_id, i) ==
    IF i > Len(items) THEN 0
    ELSE IF items[Len(items) + 1 - i] = product_id THEN Len(items) + 1 - i
    ELSE FirstIndex_last(items, product_id, i + 1)

\* index of the first item with the given product_id, 0 when there is none
RECURSIVE FirstIndex(_, _, _)
FirstIndex(items, product_id, i) ==
    IF i > Len(items) THEN 0
    ELSE IF items[i] = product_id THEN i
    ELSE FirstIndex(items, product_id, i + 1)

Pop(items, i) == SubSeq(items, 1, i - 1) \o SubSeq(items, i + 1, Len(items))

remove_product(c, product_id) ==
    LET i == FirstIndex(carts[c], product_id, 1) IN
    /\ carts' = [carts EXCEPT ![c] = IF i = 0 THEN @ ELSE Pop(@, i)]
    /\ last' = [op |-> "remove_product", result |-> (i # 0)]
    /\ UNCHANGED <<db, pass, instants, inflight>>

\* Without dropping only the first item that has the product_id
RECURSIVE Without_first(_, _)
Without_first(items, product_id) ==
    IF items = <<>> THEN <<>>
    ELSE IF Head(items) # product_id
         THEN <<Head(items)>> \o Without_first(Tail(items), product_id)
         ELSE Tail(items)

\* [item for item in self._items if item.product_id != product_id]
RECURSIVE Without(_, _)
Without(items, product_id) ==
    IF items = <<>> THEN <<>>
    ELSE IF Head(items) # product_id
         THEN <<Head(items)>> \o Without(Tail(items), product_id)
         ELSE Without(Tail(items), product_id)

remove_all_products(c, product_id) ==
    LET original_length == Len(carts[c])
        kept == Without(carts[c], product_id) IN
    /\ carts' = [carts EXCEPT ![c] = kept]
    /\ last' = [op |-> "remove_all_products", result |-> original_length - Len(kept)]
    /\ UNCHANGED <<db, pass, instants, inflight>>

clear(c) ==
    /\ carts' = [carts EXCEPT ![c] = <<>>]
    /\ last' = [op |-> "clear", result |-> None]
    /\ UNCHANGED <<db, pass, instants, inflight>>

\* CountPredecessor leaving out a product that follows itself
CountPredecessor_distinct(predecessor_counts, current, predecessor) ==
    IF current = predecessor THEN predecessor_counts
    ELSE Put(predecessor_counts, current,
             Incr(IF Has(predecessor_counts, current)
                  THEN Get(predecessor_counts, current) ELSE <<>>, predecessor))

\* predecessor_counts[current][predecessor] += 1 on a defaultdict(Counter)
CountPredecessor(predecessor_counts, current, predecessor) ==
    Put(predecessor_counts, current,
        Incr(IF Has(predecessor_counts, current)
             THEN Get(predecessor_counts, current) ELSE <<>>, predecessor))

\* for i in range(1, len(sequence)): Python index i is position i + 1 here
RECURSIVE ScanSequence(_, _, _)
ScanSequence(predecessor_counts, sequence, i) ==
    IF i > Len(sequence) THEN predecessor_counts
    ELSE ScanSequence(CountPredecessor(predecessor_counts, sequence[i], sequence[i - 1]),
                      sequence, i + 1)

\* ScanCarts with the inner loop starting one position late
RECURSIVE ScanCarts_late(_, _, _)
ScanCarts_late(predecessor_counts, cs, c) ==
    IF c > Len(cs) THEN predecessor_counts
    ELSE ScanCarts_late(ScanSequence(predecessor_counts, get_product_sequence(cs[c]), 3),
                        cs, c + 1)

\* ScanCarts with the inner loop over range(len(sequence)): at index 0 the
\* predecessor sequence[-1] is the last product of the cart
RECURSIVE ScanCarts_wrap(_, _, _)
ScanCarts_wrap(predecessor_counts, cs, c) ==
    IF c > Len(cs) THEN predecessor_counts
    ELSE LET sequence == get_product_sequence(cs[c]) IN
         ScanCarts_wrap(
            IF sequence = <<>> THEN predecessor_counts
            ELSE ScanSequence(predecessor_counts,
                              <<sequence[Len(sequence)]>> \o sequence, 2),
            cs, c + 1)

RECURSIVE ScanCarts(_, _, _)
ScanCarts(predecessor_counts, cs, c) ==
    IF c > Len(cs) THEN predecessor_counts
    ELSE ScanCarts(ScanSequence(predecessor_counts, get_product_sequence(cs[c]), 2),
                   cs, c + 1)

ProductSequenceStats(product_id, predecessors) ==
    IF Len(predecessors) > 0
    THEN LET most_common_1 == most_common(predecessors, 1)[1] IN
         [product_id |-> product_id,
          most_common_predecessor |-> most_common_1.k,
          occurrences |-> most_common_1.v]
    ELSE [product_id |-> product_id,
          most_common_predecessor |-> None,
          occurrences |-> 0]

analyze_product_sequences(cs) ==
    LET predecessor_counts == ScanCarts(<<>>, cs, 1) IN
    [i \in DOMAIN predecessor_counts |->
        [k |-> predecessor_counts[i].k,
         v |-> ProductSequenceStats(predecessor_counts[i].k, predecessor_counts[i].v)]]

\* AnalyzeProductSequences scanning each cart by popping the items off the
\* cart's own list until one is left
AnalyzeProductSequences_popping ==
    /\ last' = [op |-> "analyze_product_sequences",
                result |-> analyze_product_sequences(carts)]
    /\ carts' = [c \in DOMAIN carts |->
                    IF carts[c] = <<>> THEN <<>> ELSE <<Head(carts[c])>>]
    /\ UNCHANGED <<db, pass, instants, inflight>>

AnalyzeProductSequences ==
    /\ last' = [op |-> "analyze_product_sequences",
                result |-> analyze_product_sequences(carts)]
    /\ UNCHANGED <<carts, db, pass, instants, inflight>>

\* the operations are exercised on the first NumShopCarts carts
NextCart ==
    \/ \E c \in 1..NumShopCarts, product \in ProductIds : add_product(c, product)
    \/ \E c \in 1..NumShopCarts : add_product_TypeError(c, NotAProduct)
    \/ \E c \in 1..NumShopCarts, product_id \in ProductIds : remove_product(c, product_id)
    \/ \E c \in 1..NumShopCarts, product_id \in ProductIds : remove_all_products(c, product_id)
    \/ \E c \in 1..NumShopCarts : clear(c)

SpecCart == Init /\ [][NextCart]_vars

\* The carts handed to the standalone analysis: add_product can build every
\* list of at most MaxLen products.
InitCarts ==
    /\ carts \in [1..NumCarts -> UNION {[1..n -> ProductIds] : n \in 0..MaxLen}]
    /\ db = [c \in 1..NumDbCarts |-> <<>>]
    /\ last = [op |-> "init", result |-> None]
    /\ pass = NoPass
    /\ instants = {}
    /\ inflight = <<>>

SpecPredecessors == InitCarts /\ [][AnalyzeProductSequences]_vars

\* Product.__init__ stores whatever product_id it is given, None included,
\* and add_product accepts every Product: the carts handed to the analysis
\* when identifiers may be absent.
InitNullIds ==
    /\ carts \in [1..NumCarts ->
                    UNION {[1..n -> ProductIds \cup {None}] : n \in 0..MaxLen}]
    /\ db = [c \in 1..NumDbCarts |-> <<>>]
    /\ last = [op |-> "init", result |-> None]
    /\ pass = NoPass
    /\ instants = {}
    /\ inflight = <<>>

SpecNullIds == InitNullIds /\ [][AnalyzeProductSequences]_vars

----------------------------------------------------------------------------
(* shopping_cart/shop/models.py *)

\* The products of the catalogue: a content type and the UUID primary key of
\* the product's own table.  Every product table has its own primary key, so
\* a book and a music album can carry the same UUID; unique_together on
\* cart_items is (cart, content_type, object_id).
Catalogue == {<<"book", 7>>, <<"music_album", 7>>, <<"book", 20>>, <<"book", 33>>}

\* A cart_items row.  added_at is set once, when the row is created, and the
\* rows of a cart are kept in db in added_at order: a new row goes last.
CartItem(product, quantity) ==
    [content_type |-> product[1], object_id |-> product[2], quantity |-> quantity]

IsItemOf(item, product) ==
    item.content_type = product[1] /\ item.object_id = product[2]

InCart(c, product) == \E i \in DOMAIN db[c] : IsItemOf(db[c][i], product)

ItemIndex(c, product) == CHOOSE i \in DOMAIN db[c] : IsItemOf(db[c][i], product)

\* add_item creating a row on every call, as create() does instead of
\* get_or_create()
add_item_create(c, product, quantity) ==
    /\ Len(db[c]) < MaxItems
    /\ db' = [db EXCEPT ![c] = Append(@, CartItem(product, quantity))]
    /\ last' = [op |-> "add_item", result |-> CartItem(product, quantity)]
    /\ instants' = Observed(db')
    /\ UNCHANGED <<carts, pass, inflight>>

\* add_item replacing the row that existed by a new one, whose added_at is
\* the time of the call
add_item_readded(c, product, quantity) ==
    IF InCart(c, product)
    THEN LET i == ItemIndex(c, product)
             cart_item == [db[c][i] EXCEPT !.quantity = @ + quantity] IN
         /\ cart_item.quantity <= MaxQty
         /\ db' = [db EXCEPT ![c] =
                      Append(SelectSeq(@, LAMBDA item : ~IsItemOf(item, product)), cart_item)]
         /\ last' = [op |-> "add_item", result |-> cart_item]
         /\ instants' = Observed(db')
         /\ UNCHANGED <<carts, pass, inflight>>
    ELSE /\ Len(db[c]) < MaxItems
         /\ db' = [db EXCEPT ![c] = Append(@, CartItem(product, quantity))]
         /\ last' = [op |-> "add_item", result |-> CartItem(product, quantity)]
         /\ instants' = Observed(db')
         /\ UNCHANGED <<carts, pass, inflight>>

\* get_or_create, then quantity += quantity on the row that existed
add_item(c, product, quantity) ==
    IF InCart(c, product)
    THEN LET i == ItemIndex(c, product)
             cart_item == [db[c][i] EXCEPT !.quantity = @ + quantity] IN
         /\ cart_item.quantity <= MaxQty
         /\ db' = [db EXCEPT ![c][i] = cart_item]
         /\ last' = [op |-> "add_item", result |-> cart_item]
         /\ instants' = Observed(db')
         /\ UNCHANGED <<carts, pass, inflight>>
    ELSE /\ Len(db[c]) < MaxItems
         /\ db' = [db EXCEPT ![c] = Append(@, CartItem(product, quantity))]
         /\ last' = [op |-> "add_item", result |-> CartItem(product, quantity)]
         /\ instants' = Observed(db')
         /\ UNCHANGED <<carts, pass, inflight>>

\* the rows of the cart that are not the product's
RECURSIVE Deleted(_, _)
Deleted(items, product) ==
    IF items = <<>> THEN <<>>
    ELSE IF IsItemOf(Head(items), product)
         THEN Deleted(Tail(items), product)
         ELSE <<Head(items)>> \o Deleted(Tail(items), product)

remove_item(c, product) ==
    LET kept == Deleted(db[c], product)
        deleted == Len(db[c]) - Len(kept) IN
    /\ db' = [db EXCEPT ![c] = kept]
    /\ last' = [op |-> "remove_item", result |-> (deleted > 0)]
    /\ instants' = Observed(db')
    /\ UNCHANGED <<carts, pass, inflight>>

\* update_item_quantity adding the quantity to the item's instead of setting it
update_item_quantity_add(c, product, quantity) ==
    IF quantity <= 0
    THEN LET kept == Deleted(db[c], product)
             deleted == Len(db[c]) - Len(kept) IN
         /\ db' = [db EXCEPT ![c] = kept]
         /\ last' = [op |-> "update_item_quantity", cart |-> c, product |-> product,
                     quantity |-> quantity, result |-> (deleted > 0)]
         /\ instants' = Observed(db')
         /\ UNCHANGED <<carts, pass, inflight>>
    ELSE IF InCart(c, product)
    THEN LET i == ItemIndex(c, product)
             cart_item == [db[c][i] EXCEPT !.quantity = @ + quantity] IN
         /\ cart_item.quantity <= MaxQty
         /\ db' = [db EXCEPT ![c][i] = cart_item]
         /\ last' = [op |-> "update_item_quantity", cart |-> c, product |-> product,
                     quantity |-> quantity, result |-> cart_item]
         /\ instants' = Observed(db')
         /\ UNCHANGED <<carts, pass, inflight>>
    ELSE /\ last' = [op |-> "update_item_quantity", cart |-> c, product |-> product,
                     quantity |-> quantity, result |-> None]
         /\ UNCHANGED <<carts, db, pass, instants, inflight>>

update_item_quantity(c, product, quantity) ==
    IF quantity <= 0
    THEN LET kept == Deleted(db[c], product)
             deleted == Len(db[c]) - Len(kept) IN
         /\ db' = [db EXCEPT ![c] = kept]
         /\ last' = [op |-> "update_item_quantity", cart |-> c, product |-> product,
                     quantity |-> quantity, result |-> (deleted > 0)]
         /\ instants' = Observed(db')
         /\ UNCHANGED <<carts, pass, inflight>>
    ELSE IF InCart(c, product)
    THEN LET i == ItemIndex(c, product)
             cart_item == [db[c][i] EXCEPT !.quantity = quantity] IN
         /\ db' = [db EXCEPT ![c][i] = cart_item]
         /\ last' = [op |-> "update_item_quantity", cart |-> c, product |-> product,
                     quantity |-> quantity, result |-> cart_item]
         /\ instants' = Observed(db')
         /\ UNCHANGED <<carts, pass, inflight>>
    ELSE /\ last' = [op |-> "update_item_quantity", cart |-> c, product |-> product,
                     quantity |-> quantity, result |-> None]
         /\ UNCHANGED <<carts, db, pass, instants, inflight>>

Cart_clear(c) ==
    /\ db' = [db EXCEPT ![c] = <<>>]
    /\ last' = [op |-> "Cart.clear", result |-> None]
    /\ instants' = Observed(db')
    /\ UNCHANGED <<carts, pass, inflight>>

\* models.Sum('quantity') is NULL over no rows, hence the `or 0`
RECURSIVE SumQuantity(_)
SumQuantity(items) ==
    IF items = <<>> THEN 0 ELSE Head(items).quantity + SumQuantity(Tail(items))

get_items_count(c) == SumQuantity(db[c])

NextShop ==
    \/ \E c \in 1..NumShopCarts, product \in Catalogue, quantity \in 1..MaxQty :
          add_item(c, product, quantity)
    \/ \E c \in 1..NumShopCarts, product \in Catalogue : remove_item(c, product)
    \/ \E c \in 1..NumShopCarts, product \in Catalogue, quantity \in 0..MaxQty :
          update_item_quantity(c, product, quantity)
    \/ \E c \in 1..NumShopCarts : Cart_clear(c)

SpecShop == Init /\ [][NextShop]_vars

\* The contents a cart can have: at most maxRows rows, no two for the same
\* product, every quantity among quantities.
CartContents(maxRows, quantities) ==
    {items \in UNION {[1..n -> {CartItem(p, q) : p \in Catalogue, q \in quantities}]
                       : n \in 0..maxRows} :
        \A i, j \in DOMAIN items :
            (items[i].content_type = items[j].content_type
             /\ items[i].object_id = items[j].object_id) => i = j}

\* The carts handed to the analyses.  No analysis reads a quantity: the rows
\* of these carts carry the default one.
InitAnalysis ==
    /\ carts = [c \in 1..NumCarts |-> <<>>]
    /\ db \in [1..NumDbCarts -> CartContents(MaxRows, {1})]
    /\ last = [op |-> "init", result |-> None]
    /\ pass = NoPass
    /\ instants = {}
    /\ inflight = <<>>

----------------------------------------------------------------------------
(* shopping_cart/shop/recommendations.py *)

\* str(uuid): the hexadecimal digits of the UUID at a fixed width (two digits
\* here instead of 32), most significant first.
Str(object_id) == <<object_id \div 16, object_id % 16>>

\* s < t on str: lexicographic on the characters
RECURSIVE StrLess(_, _)
StrLess(s, t) ==
    IF t = <<>> THEN FALSE
    ELSE IF s = <<>> THEN TRUE
    ELSE IF Head(s) # Head(t) THEN Head(s) < Head(t)
    ELSE StrLess(Tail(s), Tail(t))

\* the carts an analysis is handed: every cart of the database
AllCarts == [c \in DOMAIN db |-> db[c]]

\* list(cart.items.all().order_by('added_at'))
ItemsByAddedAt(cart) == cart

\* product_followers[key].append(value) on a defaultdict(list)
AppendTo(product_followers, key, value) ==
    Put(product_followers, key,
        Append(IF Has(product_followers, key) THEN Get(product_followers, key) ELSE <<>>,
               value))

\* FollowersOfCart with the loop ending one pair early
RECURSIVE FollowersOfCart_short(_, _, _)
FollowersOfCart_short(product_followers, items, i) ==
    IF i > Len(items) - 2 THEN product_followers
    ELSE FollowersOfCart_short(AppendTo(product_followers, Str(items[i].object_id),
                                        Str(items[i + 1].object_id)),
                               items, i + 1)

\* for i in range(len(items) - 1): Python index i is position i + 1 here
RECURSIVE FollowersOfCart(_, _, _)
FollowersOfCart(product_followers, items, i) ==
    IF i > Len(items) - 1 THEN product_followers
    ELSE FollowersOfCart(AppendTo(product_followers, Str(items[i].object_id),
                                  Str(items[i + 1].object_id)),
                         items, i + 1)

RECURSIVE FollowersOfCarts(_, _, _)
FollowersOfCarts(product_followers, cs, c) ==
    IF c > Len(cs) THEN product_followers
    ELSE FollowersOfCarts(FollowersOfCart(product_followers, ItemsByAddedAt(cs[c]), 1),
                          cs, c + 1)

\* result[product_id] = (most_common[0], most_common[1]) for non-empty followers
RECURSIVE MostCommonFollowers(_, _, _)
MostCommonFollowers(result, product_followers, i) ==
    IF i > Len(product_followers) THEN result
    ELSE LET followers == product_followers[i].v IN
         MostCommonFollowers(
            IF Len(followers) > 0
            THEN LET most_common_1 == most_common(CounterOf(<<>>, followers, 1), 1)[1] IN
                 Put(result, product_followers[i].k, <<most_common_1.k, most_common_1.v>>)
            ELSE result,
            product_followers, i + 1)

shop_analyze_product_sequences(cs) ==
    MostCommonFollowers(<<>>, FollowersOfCarts(<<>>, cs, 1), 1)

\* FollowersInCart collecting the item before product_id instead of the one
\* after it
RECURSIVE FollowersInCart_previous(_, _, _, _)
FollowersInCart_previous(product_followers, product_id, items, i) ==
    IF i > Len(items) - 1 THEN product_followers
    ELSE FollowersInCart_previous(IF Str(items[i + 1].object_id) = product_id
                                  THEN Append(product_followers, Str(items[i].object_id))
                                  ELSE product_followers,
                                  product_id, items, i + 1)

\* the followers of product_id in one cart, appended to product_followers
RECURSIVE FollowersInCart(_, _, _, _)
FollowersInCart(product_followers, product_id, items, i) ==
    IF i > Len(items) - 1 THEN product_followers
    ELSE FollowersInCart(IF Str(items[i].object_id) = product_id
                         THEN Append(product_followers, Str(items[i + 1].object_id))
                         ELSE product_followers,
                         product_id, items, i + 1)

RECURSIVE FollowersInCarts(_, _, _, _)
FollowersInCarts(product_followers, product_id, cs, c) ==
    IF c > Len(cs) THEN product_followers
    ELSE FollowersInCarts(
            FollowersInCart(product_followers, product_id, ItemsByAddedAt(cs[c]), 1),
            product_id, cs, c + 1)

get_product_recommendations(product_id, cs, limit) ==
    LET product_followers == FollowersInCarts(<<>>, product_id, cs, 1) IN
    IF product_followers = <<>> THEN <<>>
    ELSE most_common(CounterOf(<<>>, product_followers, 1), limit)

\* a Python float that is the quotient of two small integers, as the reduced
\* fraction <<numerator, denominator>>; 0.0 is <<0, 1>>
RECURSIVE Gcd(_, _)
Gcd(a, b) == IF b = 0 THEN a ELSE Gcd(b, a % b)

TrueDiv(a, b) == <<a \div Gcd(a, b), b \div Gcd(a, b)>>

Zero == <<0, 1>>

\* set(str(item.object_id) for item in cart.items.all())
IdSet(cart) == {Str(cart[i].object_id) : i \in DOMAIN cart}

\* get_cart_similarity_score with the union taken as len(items1) + len(items2)
get_cart_similarity_score_sum(cart1, cart2) ==
    LET items1 == IdSet(cart1)
        items2 == IdSet(cart2) IN
    IF items1 = {} /\ items2 = {} THEN Zero
    ELSE LET intersection == Cardinality(items1 \cap items2)
             union == Cardinality(items1) + Cardinality(items2) IN
         IF union > 0 THEN TrueDiv(intersection, union) ELSE Zero

\* get_cart_similarity_score without the test for two empty sets and without
\* the test union > 0: the quotient 0/0, which Python refuses with a
\* ZeroDivisionError, is the pair <<0, 0>>
get_cart_similarity_score_unguarded(cart1, cart2) ==
    LET items1 == IdSet(cart1)
        items2 == IdSet(cart2)
        intersection == Cardinality(items1 \cap items2)
        union == Cardinality(items1 \cup items2) IN
    IF union > 0 THEN TrueDiv(intersection, union) ELSE <<intersection, union>>

\* get_cart_similarity_score dividing by len(items1) instead of the union
get_cart_similarity_score_first(cart1, cart2) ==
    LET items1 == IdSet(cart1)
        items2 == IdSet(cart2) IN
    IF items1 = {} /\ items2 = {} THEN Zero
    ELSE LET intersection == Cardinality(items1 \cap items2)
             union == Cardinality(items1) IN
         IF union > 0 THEN TrueDiv(intersection, union) ELSE Zero

get_cart_similarity_score(cart1, cart2) ==
    LET items1 == IdSet(cart1)
        items2 == IdSet(cart2) IN
    IF items1 = {} /\ items2 = {} THEN Zero
    ELSE LET intersection == Cardinality(items1 \cap items2)
             union == Cardinality(items1 \cup items2) IN
         IF union > 0 THEN TrueDiv(intersection, union) ELSE Zero

\* sorted(list of str): insertion sort, ascending and stable
RECURSIVE InsertStr(_, _, _)
InsertStr(sorted, s, i) ==
    IF i > Len(sorted) THEN Append(sorted, s)
    ELSE IF StrLess(s, sorted[i])
         THEN SubSeq(sorted, 1, i - 1) \o <<s>> \o SubSeq(sorted, i, Len(sorted))
         ELSE InsertStr(sorted, s, i + 1)

RECURSIVE SortedStrs(_, _, _)
SortedStrs(sorted, list, i) ==
    IF i > Len(list) THEN sorted
    ELSE SortedStrs(InsertStr(sorted, list[i], 1), list, i + 1)

\* SortedProductIds without the sort
SortedProductIds_unsorted(cart) == [i \in DOMAIN cart |-> Str(cart[i].object_id)]

\* sorted([str(item.object_id) for item in cart.items.all()])
SortedProductIds(cart) ==
    SortedStrs(<<>>, [i \in DOMAIN cart |-> Str(cart[i].object_id)], 1)

\* for i in range(len(product_ids)): for j in range(i + 1, len(product_ids)):
\*     product_combinations[(product_ids[i], product_ids[j])] += 1
RECURSIVE CountPairs(_, _, _, _)
CountPairs(product_combinations, product_ids, i, j) ==
    IF i > Len(product_ids) THEN product_combinations
    ELSE IF j > Len(product_ids) THEN CountPairs(product_combinations, product_ids, i + 1, i + 2)
    ELSE CountPairs(Incr(product_combinations, <<product_ids[i], product_ids[j]>>),
                    product_ids, i, j + 1)

RECURSIVE CountCarts(_, _, _)
CountCarts(product_combinations, cs, c) ==
    IF c > Len(cs) THEN product_combinations
    ELSE CountCarts(CountPairs(product_combinations, SortedProductIds(cs[c]), 1, 2),
                    cs, c + 1)

\* FilterMin with a strict comparison
RECURSIVE FilterMin_strict(_, _)
FilterMin_strict(entries, min_frequency) ==
    IF entries = <<>> THEN <<>>
    ELSE IF Head(entries).v > min_frequency
         THEN <<Head(entries)>> \o FilterMin_strict(Tail(entries), min_frequency)
         ELSE FilterMin_strict(Tail(entries), min_frequency)

\* [(pair, count) for pair, count in product_combinations.items() if count >= min_frequency]
RECURSIVE FilterMin(_, _)
FilterMin(entries, min_frequency) ==
    IF entries = <<>> THEN <<>>
    ELSE IF Head(entries).v >= min_frequency
         THEN <<Head(entries)>> \o FilterMin(Tail(entries), min_frequency)
         ELSE FilterMin(Tail(entries), min_frequency)

find_frequently_bought_together(cs, min_frequency) ==
    LET product_combinations == CountCarts(<<>>, cs, 1)
        result == FilterMin(product_combinations, min_frequency) IN
    SortedDesc(<<>>, result, 1)

AnalyzeSequences ==
    /\ last' = [op |-> "shop.analyze_product_sequences",
                result |-> shop_analyze_product_sequences(AllCarts)]
    /\ UNCHANGED <<carts, db, pass, instants, inflight>>

\* the product_id strings a caller asks about: the catalogue's and an unknown one
QueryIds == {Str(p[2]) : p \in Catalogue} \cup {Str(255)}

GetProductRecommendations(product_id, limit) ==
    /\ last' = [op |-> "get_product_recommendations",
                product_id |-> product_id, limit |-> limit,
                result |-> get_product_recommendations(product_id, AllCarts, limit)]
    /\ UNCHANGED <<carts, db, pass, instants, inflight>>

GetCartSimilarityScore(c1, c2) ==
    /\ last' = [op |-> "get_cart_similarity_score", cart1 |-> c1, cart2 |-> c2,
                result |-> get_cart_similarity_score(db[c1], db[c2])]
    /\ UNCHANGED <<carts, db, pass, instants, inflight>>

FindFrequentlyBoughtTogether(min_frequency) ==
    /\ last' = [op |-> "find_frequently_bought_together",
                min_frequency |-> min_frequency,
                result |-> find_frequently_bought_together(AllCarts, min_frequency)]
    /\ UNCHANGED <<carts, db, pass, instants, inflight>>

SpecFollowers == InitAnalysis /\ [][AnalyzeSequences]_vars

NextRecommendations ==
    \E product_id \in QueryIds, limit \in 1..MaxLimit :
        GetProductRecommendations(product_id, limit)

SpecRecommendations == InitAnalysis /\ [][NextRecommendations]_vars

\* the view passes int(query_params['limit']) on unchecked: 0 and negative limits
NextLimits ==
    \E product_id \in QueryIds, limit \in (0 - MaxNegLimit)..0 :
        GetProductRecommendations(product_id, limit)

SpecLimits == InitAnalysis /\ [][NextLimits]_vars

NextSimilarity == \E c1, c2 \in 1..NumDbCarts : GetCartSimilarityScore(c1, c2)

SpecSimilarity == InitAnalysis /\ [][NextSimilarity]_vars

NextTogether ==
    \E min_frequency \in 1..MaxMinFreq : FindFrequentlyBoughtTogether(min_frequency)

SpecTogether == InitAnalysis /\ [][NextTogether]_vars

\* The inputs of any analysis: a list of standalone carts, or the carts of a
\* database, the list itself possibly empty.  The database carts are those
\* the Cart operations build, of at most MaxItems rows.
InitInputs ==
    /\ \/ /\ \E n \in 0..NumCarts :
                 carts \in [1..n -> UNION {[1..k -> ProductIds] : k \in 0..MaxLen}]
          /\ db = <<>>
       \/ /\ carts = <<>>
          /\ \E n \in 0..NumDbCarts : db \in [1..n -> CartContents(MaxItems, {1})]
    /\ last = [op |-> "init", result |-> None]
    /\ pass = NoPass
    /\ instants = {}
    /\ inflight = <<>>

NextAnalyses ==
    \/ AnalyzeProductSequences
    \/ AnalyzeSequences
    \/ \E product_id \in QueryIds, limit \in 1..MaxLimit :
           GetProductRecommendations(product_id, limit)
    \/ \E c1, c2 \in DOMAIN db : GetCartSimilarityScore(c1, c2)
    \/ \E min_frequency \in 1..MaxMinFreq : FindFrequentlyBoughtTogether(min_frequency)

SpecAnalyses == InitInputs /\ [][NextAnalyses]_vars

----------------------------------------------------------------------------
(* An analysis pass of analyze_product_sequences, query by query *)

\* `for cart in carts`: the queryset of carts is evaluated when the loop starts
BeginPass ==
    /\ pass.at = 0
    /\ pass' = [at |-> 1, product_followers |-> <<>>]
    /\ instants' = {db}
    /\ UNCHANGED <<carts, db, last, inflight>>

\* items = list(cart.items.all().order_by('added_at')) is one query per cart,
\* issued when the loop reaches the cart; the inner loop works on that list
ReadCart ==
    /\ pass.at \in DOMAIN db
    /\ pass' = [at |-> pass.at + 1,
                product_followers |->
                    FollowersOfCart(pass.product_followers,
                                    ItemsByAddedAt(db[pass.at]), 1)]
    /\ UNCHANGED <<carts, db, last, instants, inflight>>

\* the second loop, over product_followers, and the return
EndPass ==
    /\ pass.at = Len(db) + 1
    /\ last' = [op |-> "shop.analyze_product_sequences",
                result |-> MostCommonFollowers(<<>>, pass.product_followers, 1)]
    /\ pass' = NoPass
    /\ UNCHANGED <<carts, db, instants, inflight>>

\* another request may change the database while the pass runs, at most
\* MaxMutations times
Mutating == pass.at # 0 /\ Cardinality(instants) <= MaxMutations

NextSnapshot ==
    \/ BeginPass
    \/ ReadCart
    \/ EndPass
    \/ \E c \in DOMAIN db, product \in Catalogue : Mutating /\ add_item(c, product, 1)
    \/ \E c \in DOMAIN db, product \in Catalogue : Mutating /\ remove_item(c, product)
    \/ \E c \in DOMAIN db : Mutating /\ Cart_clear(c)

\* the carts the pass starts on: those the Cart operations build
InitSnapshot ==
    /\ carts = <<>>
    /\ db \in [1..NumDbCarts -> CartContents(MaxItems, {1})]
    /\ last = [op |-> "init", result |-> None]
    /\ pass = NoPass
    /\ instants = {}
    /\ inflight = <<>>

SpecSnapshot == InitSnapshot /\ [][NextSnapshot]_vars

\* The Cart operations on carts that the analyses read together with the
\* other carts of the database
SpecQuantities == InitSnapshot /\ [][NextShop]_vars

----------------------------------------------------------------------------
(* Two requests running Cart.add_item on the same cart, statement by statement *)

\* One call of add_item: where it stands, its arguments, and its locals
\* cart_item (the quantity it loaded) and created.  before is the quantity the
\* cart held for the product when the calls started (0: no row).
Call(product, quantity, before) ==
    [pc |-> "get", cart |-> 1, product |-> product, quantity |-> quantity,
     cart_item |-> 0, created |-> FALSE, before |-> before]

\* get_or_create: the SELECT.  It loads the row, or finds none and goes on
\* to the INSERT.
get_or_create_get(p) ==
    LET call == inflight[p] IN
    /\ call.pc = "get"
    /\ inflight' = [inflight EXCEPT ![p] =
            IF InCart(call.cart, call.product)
            THEN [call EXCEPT !.pc = "save",
                              !.cart_item = db[call.cart][ItemIndex(call.cart, call.product)].quantity]
            ELSE [call EXCEPT !.pc = "create"]]
    /\ UNCHANGED <<carts, db, last, pass, instants>>

\* get_or_create: the INSERT with defaults={'quantity': quantity}.  When the
\* other call inserted the row meanwhile, unique_together makes the INSERT
\* fail and get_or_create loads that row instead, with created False.
get_or_create_create(p) ==
    LET call == inflight[p] IN
    /\ call.pc = "create"
    /\ IF InCart(call.cart, call.product)
       THEN /\ inflight' = [inflight EXCEPT ![p] =
                    [call EXCEPT !.pc = "save",
                                 !.cart_item = db[call.cart][ItemIndex(call.cart, call.product)].quantity]]
            /\ UNCHANGED <<db, last>>
       ELSE /\ db' = [db EXCEPT ![call.cart] = Append(@, CartItem(call.product, call.quantity))]
            /\ inflight' = [inflight EXCEPT ![p] =
                    [call EXCEPT !.pc = "done", !.cart_item = call.quantity,
                                 !.created = TRUE]]
            /\ last' = [op |-> "add_item", result |-> CartItem(call.product, call.quantity)]
    /\ UNCHANGED <<carts, pass, instants>>

\* if not created: cart_item.quantity += quantity; cart_item.save()
\* save() writes the quantity computed from the loaded one
add_item_save(p) ==
    LET call == inflight[p]
        cart_item == CartItem(call.product, call.cart_item + call.quantity) IN
    /\ call.pc = "save"
    /\ db' = [db EXCEPT ![call.cart] =
                [i \in DOMAIN @ |-> IF IsItemOf(@[i], call.product) THEN cart_item ELSE @[i]]]
    /\ inflight' = [inflight EXCEPT ![p] =
            [call EXCEPT !.pc = "done", !.cart_item = cart_item.quantity]]
    /\ last' = [op |-> "add_item", result |-> cart_item]
    /\ UNCHANGED <<carts, pass, instants>>

NextConcurrentAdd ==
    \E p \in DOMAIN inflight :
        \/ get_or_create_get(p)
        \/ get_or_create_create(p)
        \/ add_item_save(p)

\* a cart as the Cart operations leave it, and two add_item calls for one
\* product about to run on it
InitConcurrentAdd ==
    /\ carts = <<>>
    /\ \E items \in CartContents(MaxItems, 1..MaxQty) :
          db = [c \in 1..NumDbCarts |-> IF c = 1 THEN items ELSE <<>>]
    /\ last = [op |-> "init", result |-> None]
    /\ pass = NoPass
    /\ instants = {}
    /\ \E product \in Catalogue, q1 \in 1..MaxQty, q2 \in 1..MaxQty :
          LET before == IF InCart(1, product)
                        THEN db[1][ItemIndex(1, product)].quantity ELSE 0 IN
          inflight = <<Call(product, q1, before), Call(product, q2, before)>>

SpecConcurrentAdd == InitConcurrentAdd /\ [][NextConcurrentAdd]_vars

----------------------------------------------------------------------------
(* Properties of the standalone analyze_product_sequences *)

\* the positions <<c, i>> at which p stands immediately before q
Adjacent(cs, p, q) ==
    UNION {{<<c, i>> : i \in {j \in DOMAIN cs[c] : j >= 2 /\ cs[c][j - 1] = p /\ cs[c][j] = q}}
           : c \in DOMAIN cs}

AdjCount(cs, p, q) == Cardinality(Adjacent(cs, p, q))

\* the products standing at a non-first position of some cart
NonFirst(cs) == UNION {{cs[c][i] : i \in DOMAIN cs[c] \ {1}} : c \in DOMAIN cs}

Analyzed == last.op = "analyze_product_sequences"

\* C1: for every product curr at a non-first position of some cart, the
\* standalone analysis reports a predecessor whose number of adjacent
\* occurrences before curr, summed over all carts, is the maximum over all
\* predecessors of curr, and occurrences is exactly that number.
C1_PredecessorIsMostFrequent ==
    Analyzed =>
        \A curr \in NonFirst(carts) :
            /\ Has(last.result, curr)
            /\ LET stats == Get(last.result, curr) IN
               /\ stats.most_common_predecessor \in ProductIds
               /\ stats.occurrences = AdjCount(carts, stats.most_common_predecessor, curr)
               /\ \A p \in ProductIds : AdjCount(carts, p, curr) <= stats.occurrences

\* the analysis ran on carts where curr has a predecessor seen first once and
\* another predecessor seen later twice
C1_Witness ==
    /\ Analyzed
    /\ \E curr, p, q \in ProductIds :
           /\ p # q
           /\ AdjCount(carts, p, curr) = 2
           /\ AdjCount(carts, q, curr) = 1
           /\ Len(carts[1]) >= 2 /\ carts[1][1] = q /\ carts[1][2] = curr
           /\ Get(last.result, curr).most_common_predecessor = p

\* C2: the keys of the returned map are exactly the products that stand at a
\* non-first position of at least one cart.
C2_KeysAreNonFirstProducts ==
    Analyzed => Keys(last.result) = NonFirst(carts)

\* the analysis ran on non-empty carts holding a product that is only ever first
C2_Witness ==
    /\ Analyzed
    /\ \A c \in DOMAIN carts : carts[c] # <<>>
    /\ \E p \in ProductIds : p \notin Keys(last.result) /\ \E c \in DOMAIN carts : carts[c][1] = p
    /\ last.result # <<>>

\* the analysis of singleton carts returned the empty map
C2_WitnessSingletons ==
    /\ Analyzed
    /\ \A c \in DOMAIN carts : Len(carts[c]) = 1
    /\ last.result = <<>>


----------------------------------------------------------------------------
(* Properties of the analyses of shop/recommendations.py *)

\* the product identifiers of every cart, in added_at order
IdSeqs == [c \in DOMAIN db |-> [i \in DOMAIN db[c] |-> Str(db[c][i].object_id)]]

AllIds == {Str(p[2]) : p \in Catalogue}

\* the products that immediately follow p somewhere
FollowersOf(p) == {f \in AllIds : AdjCount(IdSeqs, p, f) > 0}

ShopAnalyzed == last.op = "shop.analyze_product_sequences"

\* C3: the Django analysis has an entry exactly for the products that are
\* immediately followed by some product in at least one cart, and the entry
\* of p is (f, n) with n the number of adjacent occurrences of p before f
\* and no follower of p occurring more often than n times.
C3_FollowerIsMostFrequent ==
    ShopAnalyzed =>
        /\ Keys(last.result) = {p \in AllIds : FollowersOf(p) # {}}
        /\ \A p \in Keys(last.result) :
              LET entry == Get(last.result, p) IN
              /\ entry[1] \in FollowersOf(p)
              /\ entry[2] = AdjCount(IdSeqs, p, entry[1])
              /\ \A f \in AllIds : AdjCount(IdSeqs, p, f) <= entry[2]

\* the analysis ran on carts where p is followed first by g, once, and later
\* twice by f, and some product is never followed
C3_Witness ==
    /\ ShopAnalyzed
    /\ \E p, f, g \in AllIds :
           /\ f # g
           /\ AdjCount(IdSeqs, p, f) = 2
           /\ AdjCount(IdSeqs, p, g) = 1
           /\ Len(IdSeqs[1]) >= 2 /\ IdSeqs[1][1] = p /\ IdSeqs[1][2] = g
           /\ Get(last.result, p) = <<f, 2>>
    /\ \E p \in AllIds : p \notin Keys(last.result)

Recommended == last.op = "get_product_recommendations"

Min(a, b) == IF a < b THEN a ELSE b

\* C4: with limit >= 1, get_product_recommendations returns distinct
\* followers of the product, each with the number of its adjacent occurrences
\* behind the product, in non-increasing order of that number, min(limit,
\* number of distinct followers) of them, none less frequent than a follower
\* that was left out; the empty list when nothing follows the product.
C4_RecommendationsAreTopFollowers ==
    (Recommended /\ last.limit >= 1) =>
        LET r == last.result
            p == last.product_id IN
        /\ \A i, j \in DOMAIN r : r[i].k = r[j].k => i = j
        /\ \A i \in DOMAIN r : r[i].k \in FollowersOf(p) /\ r[i].v = AdjCount(IdSeqs, p, r[i].k)
        /\ \A i \in DOMAIN r : i > 1 => r[i - 1].v >= r[i].v
        /\ Len(r) = Min(last.limit, Cardinality(FollowersOf(p)))
        /\ \A f \in FollowersOf(p) \ Keys(r) : \A i \in DOMAIN r : AdjCount(IdSeqs, p, f) <= r[i].v
        /\ (FollowersOf(p) = {} => r = <<>>)

\* a query with limit 1 left out the follower seen first, which is less frequent
C4_Witness ==
    /\ Recommended
    /\ last.limit = 1
    /\ Len(last.result) = 1
    /\ \E g \in FollowersOf(last.product_id) \ Keys(last.result) :
           /\ Len(IdSeqs[1]) >= 2 /\ IdSeqs[1][1] = last.product_id /\ IdSeqs[1][2] = g
           /\ AdjCount(IdSeqs, last.product_id, g) < last.result[1].v

\* a query returned two followers, the more frequent one first although it
\* was seen second
C4_WitnessSorted ==
    /\ Recommended
    /\ Len(last.result) = 2
    /\ last.result[1].v > last.result[2].v
    /\ Len(IdSeqs[1]) >= 2 /\ IdSeqs[1][1] = last.product_id /\ IdSeqs[1][2] = last.result[2].k

\* a query about a product that is in a cart and never followed returned []
C4_WitnessEmpty ==
    /\ Recommended
    /\ last.result = <<>>
    /\ \E c \in DOMAIN IdSeqs : Len(IdSeqs[c]) >= 2 /\ IdSeqs[c][Len(IdSeqs[c])] = last.product_id

BoughtTogether == last.op = "find_frequently_bought_together"

ToSet(list) == {list[i] : i \in DOMAIN list}

\* the number of carts that hold both a and b
CoMembership(a, b) ==
    Cardinality({c \in DOMAIN IdSeqs : {a, b} \subseteq ToSet(IdSeqs[c])})

\* C5 (as claimed): the count of a returned pair is the number of carts in
\* which both of its products appear, and a pair is made of two different
\* products: duplicates of a product in one cart count once.
C5_CountIsCoMembership ==
    BoughtTogether =>
        \A i \in DOMAIN last.result :
            LET pair == last.result[i].k IN
            /\ pair[1] # pair[2]
            /\ last.result[i].v = CoMembership(pair[1], pair[2])

\* C6 (as claimed): every returned pair (a, b) has a strictly before b in the
\* lexicographic order of the identifier strings, and no unordered pair is
\* returned twice.
C6_PairsAreCanonical ==
    BoughtTogether =>
        /\ \A i \in DOMAIN last.result :
              StrLess(last.result[i].k[1], last.result[i].k[2])
        /\ \A i, j \in DOMAIN last.result :
              {last.result[i].k[1], last.result[i].k[2]}
                  = {last.result[j].k[1], last.result[j].k[2]} => i = j

\* the permutations of a list
Permutations(list) ==
    {[i \in DOMAIN list |-> list[f[i]]] :
        f \in {g \in [DOMAIN list -> DOMAIN list] : \A i, j \in DOMAIN list : g[i] = g[j] => i = j}}

\* C7: permuting the addition order inside any cart leaves the set of
\* returned (pair, count) entries unchanged.
C7_OrderInsensitive ==
    BoughtTogether =>
        \A c \in DOMAIN db : \A permuted \in Permutations(db[c]) :
            ToSet(find_frequently_bought_together([AllCarts EXCEPT ![c] = permuted],
                                                  last.min_frequency))
                = ToSet(last.result)

\* carts [A, B] and [B, A] gave the single pair (A, B) with count 2
C7_Witness ==
    /\ BoughtTogether
    /\ \E a, b \in AllIds :
           /\ StrLess(a, b)
           /\ IdSeqs[1] = <<a, b>>
           /\ IdSeqs[2] = <<b, a>>
           /\ last.result = <<[k |-> <<a, b>>, v |-> 2]>>

\* the number of times a occurs in a cart
Occurrences(ids, a) == Cardinality({i \in DOMAIN ids : ids[i] = a})

\* the count accumulated for the pair (a, b), a not after b: every choice of
\* an occurrence of a and an occurrence of b (of two occurrences when a = b)
RECURSIVE Accumulated(_, _, _)
Accumulated(a, b, c) ==
    IF c > Len(IdSeqs) THEN 0
    ELSE (IF a = b
          THEN (Occurrences(IdSeqs[c], a) * (Occurrences(IdSeqs[c], a) - 1)) \div 2
          ELSE Occurrences(IdSeqs[c], a) * Occurrences(IdSeqs[c], b))
         + Accumulated(a, b, c + 1)

CanonicalPairs == {pair \in AllIds \X AllIds : pair[1] = pair[2] \/ StrLess(pair[1], pair[2])}

\* C8: every returned pair has a count of at least min_frequency, every pair
\* whose accumulated count is at least min_frequency is returned, and a
\* larger min_frequency returns a subset of the entries.
C8_MinFrequencyFilter ==
    BoughtTogether =>
        /\ \A i \in DOMAIN last.result : last.result[i].v >= last.min_frequency
        /\ \A pair \in CanonicalPairs :
              Accumulated(pair[1], pair[2], 1) >= last.min_frequency
                  => [k |-> pair, v |-> Accumulated(pair[1], pair[2], 1)] \in ToSet(last.result)
        /\ \A m2 \in last.min_frequency..(MaxMinFreq + 1) :
              ToSet(find_frequently_bought_together(AllCarts, m2)) \subseteq ToSet(last.result)

\* a call with min_frequency 2 returned a pair counted exactly twice and left
\* out a pair counted once
C8_Witness ==
    /\ BoughtTogether
    /\ last.min_frequency = 2
    /\ \E i \in DOMAIN last.result : last.result[i].v = 2
    /\ \E pair \in CanonicalPairs : Accumulated(pair[1], pair[2], 1) = 1

\* (a, b) before (c, d) in the canonical order of pairs
PairLess(p, q) == StrLess(p[1], q[1]) \/ (p[1] = q[1] /\ StrLess(p[2], q[2]))

CountDescending(r) == \A i \in DOMAIN r : i > 1 => r[i - 1].v >= r[i].v

\* C9 (as claimed): the list is sorted by count descending and entries with
\* equal counts are in ascending canonical order of their pairs.
C9_TiesInCanonicalOrder ==
    BoughtTogether =>
        /\ CountDescending(last.result)
        /\ \A i, j \in DOMAIN last.result :
              (i < j /\ last.result[i].v = last.result[j].v)
                  => PairLess(last.result[i].k, last.result[j].k)

\* the first cart, in list order, that holds the pair
FirstCart(pair) ==
    CHOOSE c \in DOMAIN IdSeqs :
        /\ Accumulated(pair[1], pair[2], c) - Accumulated(pair[1], pair[2], c + 1) > 0
        /\ \A d \in 1..(c - 1) :
              Accumulated(pair[1], pair[2], d) - Accumulated(pair[1], pair[2], d + 1) = 0

\* C9 (amended): the list is sorted by count descending and entries with
\* equal counts are in the order in which their pairs were first counted:
\* by the first cart that holds the pair and, inside one cart, in canonical
\* order.
C9_TiesInFirstCountedOrder ==
    BoughtTogether =>
        /\ CountDescending(last.result)
        /\ \A i, j \in DOMAIN last.result :
              (i < j /\ last.result[i].v = last.result[j].v)
                  => \/ FirstCart(last.result[i].k) < FirstCart(last.result[j].k)
                     \/ /\ FirstCart(last.result[i].k) = FirstCart(last.result[j].k)
                        /\ PairLess(last.result[i].k, last.result[j].k)

\* a call returned two pairs with equal counts, the one counted first being
\* the later one in canonical order
C9_Witness ==
    /\ BoughtTogether
    /\ \E i, j \in DOMAIN last.result :
           /\ i < j
           /\ last.result[i].v = last.result[j].v
           /\ PairLess(last.result[j].k, last.result[i].k)

Scored == last.op = "get_cart_similarity_score"

\* the UUIDs of the products of a cart
ObjectIds(c) == {db[c][i].object_id : i \in DOMAIN db[c]}

One == <<1, 1>>

\* C10: for two carts that are not both empty the score is the size of the
\* intersection of their identifier sets divided by the size of the union;
\* it is 1.0 exactly when the two sets are equal and 0.0 exactly when they
\* are disjoint.
C10_ScoreIsJaccard ==
    (Scored /\ (db[last.cart1] # <<>> \/ db[last.cart2] # <<>>)) =>
        LET A == ObjectIds(last.cart1)
            B == ObjectIds(last.cart2) IN
        /\ last.result[2] > 0
        /\ last.result[1] * Cardinality(A \cup B) = last.result[2] * Cardinality(A \cap B)
        /\ (last.result = One) = (A = B)
        /\ (last.result = Zero) = (A \cap B = {})

\* two different carts that share one of two identifiers scored 1/2
C10_Witness ==
    /\ Scored
    /\ last.cart1 # last.cart2
    /\ last.result = <<1, 2>>
    /\ ObjectIds(last.cart1) # ObjectIds(last.cart2)

\* a non-empty cart scored 1.0 against itself
C10_WitnessSelf ==
    /\ Scored
    /\ last.cart1 = last.cart2
    /\ db[last.cart1] # <<>>
    /\ last.result = One

\* C11: get_cart_similarity_score returns a number for every pair of carts,
\* the number lies between 0.0 and 1.0, and for two empty carts it is 0.0:
\* no quotient with a zero denominator is ever formed.
C11_ScoreInUnitInterval ==
    Scored =>
        /\ last.result[2] > 0
        /\ 0 <= last.result[1]
        /\ last.result[1] <= last.result[2]
        /\ (db[last.cart1] = <<>> /\ db[last.cart2] = <<>>) => last.result = Zero

\* two empty carts were scored 0.0
C11_Witness ==
    /\ Scored
    /\ db[last.cart1] = <<>>
    /\ db[last.cart2] = <<>>
    /\ last.result = Zero

\* an empty cart was scored against a cart with items
C11_WitnessOneEmpty ==
    /\ Scored
    /\ db[last.cart1] = <<>>
    /\ db[last.cart2] # <<>>
    /\ last.result = Zero

\* C12: the score does not depend on the order of the two carts:
\* get_cart_similarity_score(A, B) = get_cart_similarity_score(B, A).
C12_ScoreIsSymmetric ==
    Scored =>
        last.result = get_cart_similarity_score(db[last.cart2], db[last.cart1])

\* two carts with identifier sets of different sizes, one inside the other,
\* were scored
C12_Witness ==
    /\ Scored
    /\ Cardinality(ObjectIds(last.cart1)) < Cardinality(ObjectIds(last.cart2))
    /\ ObjectIds(last.cart1) \subseteq ObjectIds(last.cart2)
    /\ last.result = <<1, 2>>

AnalysisOps ==
    {"analyze_product_sequences", "shop.analyze_product_sequences",
     "get_product_recommendations", "get_cart_similarity_score",
     "find_frequently_bought_together"}

\* C13: no analysis changes a cart it inspects: after a call of any of the
\* five analyses the list of carts, and the contents and order of every
\* cart, are what they were before the call.
C13_AnalysesLeaveCartsAlone ==
    [][last'.op \in AnalysisOps => (carts' = carts /\ db' = db)]_vars

\* the standalone analysis returned statistics for carts with items
C13_Witness ==
    /\ last.op = "analyze_product_sequences"
    /\ last.result # <<>>
    /\ \E c \in DOMAIN carts : Len(carts[c]) >= 2

\* an analysis of the database returned pairs for carts with items
C13_WitnessShop ==
    /\ last.op = "find_frequently_bought_together"
    /\ last.result # <<>>
    /\ \E c \in DOMAIN db : Len(db[c]) >= 2

\* C15: a cart sequence holding a null product identifier makes the analysis
\* fail with an input error: the analysis never returns statistics for such
\* carts, and no null identifier is a key or a predecessor of a result.
C15_NullIdentifierRejected ==
    Analyzed =>
        /\ \A c \in DOMAIN carts : \A i \in DOMAIN carts[c] : carts[c][i] # None
        /\ \A e \in DOMAIN last.result :
               /\ last.result[e].k # None
               /\ last.result[e].v.most_common_predecessor # None

\* C16: the analyses are total on well-formed input.  On no carts, on empty
\* carts, on carts of one item and on carts that repeat one product every
\* analysis returns a well-formed result; the standalone analysis returns
\* the empty map when no cart has two items, and so do the analyses of the
\* database, whose similarity score is always a number.
C16_AnalysesAreTotal ==
    /\ last.op = "analyze_product_sequences" =>
           /\ (\A c \in DOMAIN carts : Len(carts[c]) <= 1) => last.result = <<>>
           /\ \A e \in DOMAIN last.result :
                  /\ last.result[e].v.product_id = last.result[e].k
                  /\ last.result[e].v.most_common_predecessor \in ProductIds
                  /\ last.result[e].v.occurrences >= 1
    /\ last.op = "shop.analyze_product_sequences" =>
           /\ (\A c \in DOMAIN db : Len(db[c]) <= 1) => last.result = <<>>
           /\ \A e \in DOMAIN last.result : last.result[e].v[2] >= 1
    /\ last.op = "get_product_recommendations" =>
           /\ (\A c \in DOMAIN db : Len(db[c]) <= 1) => last.result = <<>>
           /\ \A e \in DOMAIN last.result : last.result[e].v >= 1
    /\ last.op = "get_cart_similarity_score" =>
           /\ last.result[2] > 0
           /\ (db[last.cart1] = <<>> \/ db[last.cart2] = <<>>) => last.result = Zero
    /\ last.op = "find_frequently_bought_together" =>
           /\ (\A c \in DOMAIN db : Len(db[c]) <= 1) => last.result = <<>>
           /\ \A e \in DOMAIN last.result : last.result[e].v >= last.min_frequency

\* the standalone analysis returned the empty map for carts that are empty
\* or hold one item, one of them holding one
C16_Witness ==
    /\ last.op = "analyze_product_sequences"
    /\ last.result = <<>>
    /\ \A c \in DOMAIN carts : Len(carts[c]) <= 1
    /\ \E c, d \in DOMAIN carts : Len(carts[c]) = 1 /\ Len(carts[d]) = 0

\* the analyses returned on an empty list of carts
C16_WitnessNoCarts ==
    /\ last.op \in {"analyze_product_sequences", "find_frequently_bought_together"}
    /\ carts = <<>>
    /\ db = <<>>
    /\ last.result = <<>>

\* the standalone analysis returned on a cart that repeats one product
C16_WitnessRepetition ==
    /\ last.op = "analyze_product_sequences"
    /\ \E c \in DOMAIN carts : carts[c] = <<"A", "A", "A">>
    /\ \E e \in DOMAIN last.result :
           last.result[e].v =
               [product_id |-> "A", most_common_predecessor |-> "A", occurrences |-> 2]

----------------------------------------------------------------------------
(* Properties of the ShoppingCart operations *)

\* s is t with some positions left out, the others in their order
RECURSIVE IsSubsequence(_, _)
IsSubsequence(s, t) ==
    IF s = <<>> THEN TRUE
    ELSE IF t = <<>> THEN FALSE
    ELSE IF Head(s) = Head(t) THEN IsSubsequence(Tail(s), Tail(t))
    ELSE IsSubsequence(s, Tail(t))

\* s without its position i
RemovedAt(s, i) == [j \in 1..(Len(s) - 1) |-> IF j < i THEN s[j] ELSE s[j + 1]]

Positions(items, product_id) == {i \in DOMAIN items : items[i] = product_id}

OthersUnchanged(c) == \A d \in DOMAIN carts \ {c} : carts'[d] = carts[d]

\* C17: across every add_product, remove_product, remove_all_products and
\* clear, get_product_sequence() changes only by one identifier appended at
\* the end (add_product) or by identifiers left out with the others in their
\* order (the removals): it is the identifiers of the items still in the
\* cart in the order they were added, duplicates kept.
C17_SequenceIsOrderAdded ==
    [][\A c \in DOMAIN carts :
          LET before == get_product_sequence(carts[c])
              after == get_product_sequence(carts'[c]) IN
          \/ after = before
          \/ /\ last'.op = "add_product"
             /\ Len(after) = Len(before) + 1
             /\ SubSeq(after, 1, Len(before)) = before
             /\ after[Len(after)] \in ProductIds
          \/ /\ last'.op \in {"remove_product", "remove_all_products", "clear"}
             /\ Len(after) < Len(before)
             /\ IsSubsequence(after, before)]_vars

\* after a removal a cart still holds one product twice
C17_Witness ==
    /\ last.op = "remove_product"
    /\ last.result = TRUE
    /\ \E c \in DOMAIN carts : get_product_sequence(carts[c]) = <<"A", "A">>

\* C18: remove_product(product_id) removes exactly one item, the first one
\* whose product_id is the given one, and returns True; when the cart has no
\* such item, the empty cart included, it returns False and the cart is
\* unchanged.
C18_RemoveFirstOccurrence ==
    [][\A c \in DOMAIN carts, product_id \in ProductIds :
          remove_product(c, product_id) =>
              LET found == Positions(carts[c], product_id) IN
              /\ OthersUnchanged(c)
              /\ IF found # {}
                 THEN LET first == CHOOSE i \in found : \A j \in found : i <= j IN
                      /\ last'.result = TRUE
                      /\ carts'[c] = RemovedAt(carts[c], first)
                 ELSE /\ last'.result = FALSE
                      /\ carts'[c] = carts[c]]_vars

\* remove_product returned True and left a later item with the same id
C18_Witness ==
    /\ last.op = "remove_product"
    /\ last.result = TRUE
    /\ \E c \in DOMAIN carts : carts[c] = <<"B", "A">>

\* remove_product returned False on an empty cart
C18_WitnessNotFound ==
    /\ last.op = "remove_product"
    /\ last.result = FALSE
    /\ \E c \in DOMAIN carts : carts[c] = <<>>

\* C19: remove_all_products(product_id) returns the number of items that had
\* the product_id before the call; afterwards no item has it, the item count
\* has dropped by the returned number and the other items are in their
\* relative order.
C19_RemoveAllOccurrences ==
    [][\A c \in DOMAIN carts, product_id \in ProductIds :
          remove_all_products(c, product_id) =>
              /\ OthersUnchanged(c)
              /\ last'.result = Cardinality(Positions(carts[c], product_id))
              /\ Positions(carts'[c], product_id) = {}
              /\ get_item_count(carts'[c]) = get_item_count(carts[c]) - last'.result
              /\ carts'[c] = SelectSeq(carts[c], LAMBDA item : item # product_id)]_vars

\* remove_all_products removed two items and left others
C19_Witness ==
    /\ last.op = "remove_all_products"
    /\ last.result = 2
    /\ \E c \in DOMAIN carts : carts[c] # <<>>

\* C20: add_product with something that is not a Product raises TypeError
\* and leaves the cart unchanged; with a Product it raises the item count by
\* exactly one, also when the cart already holds the same product_id.
C20_AddProduct ==
    [][/\ \A c \in DOMAIN carts :
             add_product_TypeError(c, NotAProduct) =>
                 (last'.result = "TypeError" /\ carts' = carts)
       /\ \A c \in DOMAIN carts, product \in ProductIds :
             add_product(c, product) =>
                 /\ last'.result = None
                 /\ OthersUnchanged(c)
                 /\ get_item_count(carts'[c]) = get_item_count(carts[c]) + 1
       /\ (last'.op = "add_product" /\ last'.result = "TypeError") => carts' = carts]_vars

\* add_product returned on a cart that now holds one product_id twice
C20_Witness ==
    /\ last.op = "add_product"
    /\ last.result = None
    /\ \E c \in DOMAIN carts : carts[c] = <<"A", "A">>

\* add_product raised TypeError on a cart with items
C20_WitnessTypeError ==
    /\ last.op = "add_product"
    /\ last.result = "TypeError"
    /\ \E c \in DOMAIN carts : carts[c] # <<>>

----------------------------------------------------------------------------
(* Properties of the Cart operations of shop/models.py *)

OneItemPerProduct(items) ==
    \A i, j \in DOMAIN items :
        (items[i].content_type = items[j].content_type
         /\ items[i].object_id = items[j].object_id) => i = j

\* the quantity of the product's item, 0 when the cart has no such item
QuantityOf(items, product) ==
    IF \E i \in DOMAIN items : IsItemOf(items[i], product)
    THEN items[CHOOSE i \in DOMAIN items : IsItemOf(items[i], product)].quantity
    ELSE 0

RECURSIVE TotalOf(_, _)
TotalOf(items, products) ==
    IF products = {} THEN 0
    ELSE LET product == CHOOSE product \in products : TRUE IN
         QuantityOf(items, product) + TotalOf(items, products \ {product})

\* C21: after every add_item, remove_item, update_item_quantity and clear a
\* cart holds at most one item per product and get_items_count() is the sum
\* of the quantities of its items, 0 when it has none; add_item for a product
\* that is in the cart adds the quantity to the existing item and creates no
\* second item.
C21_OneItemPerProduct ==
    [][/\ \A c \in DOMAIN db :
             /\ OneItemPerProduct(db'[c])
             /\ get_items_count(c)' = TotalOf(db'[c], Catalogue)
             /\ db'[c] = <<>> => get_items_count(c)' = 0
       /\ last'.op = "add_item" =>
             \A c \in 1..NumShopCarts, product \in Catalogue, quantity \in 1..MaxQty :
                 (InCart(c, product) /\ add_item(c, product, quantity)) =>
                     /\ Len(db'[c]) = Len(db[c])
                     /\ QuantityOf(db'[c], product) = QuantityOf(db[c], product) + quantity
                     /\ last'.result.quantity = QuantityOf(db[c], product) + quantity]_vars

\* add_item raised the quantity of an item of a cart with two items
C21_Witness ==
    /\ last.op = "add_item"
    /\ last.result.quantity = 2
    /\ \E c \in DOMAIN db :
           /\ Len(db[c]) = 2
           /\ get_items_count(c) = 3
           /\ \E i \in DOMAIN db[c] : db[c][i] = last.result

----------------------------------------------------------------------------
(* Properties that span several analyses *)

\* position x = <<cart, index>> comes before position y in scan order
ScannedBefore(x, y) == x[1] < y[1] \/ (x[1] = y[1] /\ x[2] < y[2])

\* p is seen next to q in cs before r is: some adjacent occurrence of (p, q)
\* comes before every adjacent occurrence of (r, q) when the pairs are read
\* as (predecessor, product), and likewise for (product, follower)
FirstSeen(cs, p, q, r, s) ==
    \E x \in Adjacent(cs, p, q) : \A y \in Adjacent(cs, r, s) : ScannedBefore(x, y)

\* C22: a tie for the highest count is decided for the candidate observed
\* first in scan order (carts in list order, positions ascending): the
\* standalone analysis reports the tied predecessor seen first, the Django
\* analysis the tied follower seen first, and get_product_recommendations
\* lists followers of equal frequency in the order they were first seen and
\* leaves out only a tied follower that was seen later.
C22_TiesGoToFirstSeen ==
    /\ Analyzed =>
           \A e \in DOMAIN last.result :
               LET curr == last.result[e].k
                   p == last.result[e].v.most_common_predecessor IN
               \A q \in ProductIds \ {p} :
                   AdjCount(carts, q, curr) = AdjCount(carts, p, curr) =>
                       FirstSeen(carts, p, curr, q, curr)
    /\ ShopAnalyzed =>
           \A e \in DOMAIN last.result :
               LET p == last.result[e].k
                   f == last.result[e].v[1] IN
               \A g \in AllIds \ {f} :
                   AdjCount(IdSeqs, p, g) = AdjCount(IdSeqs, p, f) =>
                       FirstSeen(IdSeqs, p, f, p, g)
    /\ (Recommended /\ last.limit >= 1) =>
           LET r == last.result
               p == last.product_id IN
           /\ \A i, j \in DOMAIN r :
                  (i < j /\ r[i].v = r[j].v) => FirstSeen(IdSeqs, p, r[i].k, p, r[j].k)
           /\ \A g \in FollowersOf(p) \ Keys(r) : \A i \in DOMAIN r :
                  AdjCount(IdSeqs, p, g) = r[i].v => FirstSeen(IdSeqs, p, r[i].k, p, g)

\* the standalone analysis reported C for B although A precedes B as often
C22_Witness ==
    /\ Analyzed
    /\ AdjCount(carts, "C", "B") = 1
    /\ AdjCount(carts, "A", "B") = 1
    /\ Get(last.result, "B").most_common_predecessor = "C"

\* the Django analysis reported the follower with the larger identifier although
\* another follows as often
C22_WitnessShop ==
    /\ ShopAnalyzed
    /\ AdjCount(IdSeqs, Str(7), Str(33)) = 1
    /\ AdjCount(IdSeqs, Str(7), Str(20)) = 1
    /\ Get(last.result, Str(7)) = <<Str(33), 1>>

\* a query with limit 1 left out a follower as frequent as the one returned
C22_WitnessRecommended ==
    /\ Recommended
    /\ last.limit = 1
    /\ Len(last.result) = 1
    /\ \E g \in FollowersOf(last.product_id) \ Keys(last.result) :
           AdjCount(IdSeqs, last.product_id, g) = last.result[1].v

\* C23: get_product_recommendations with limit 0 or a negative limit returns
\* the empty list, for every product and every collection of carts.
C23_NoResultsForNonPositiveLimit ==
    (Recommended /\ last.limit <= 0) => last.result = <<>>

\* a query with a negative limit about a product with two different
\* followers returned the empty list
C23_Witness ==
    /\ Recommended
    /\ last.limit = -1
    /\ Cardinality(FollowersOf(last.product_id)) >= 2
    /\ last.result = <<>>

\* a query with limit 0 about a followed product returned the empty list
C23_WitnessZero ==
    /\ Recommended
    /\ last.limit = 0
    /\ FollowersOf(last.product_id) # {}
    /\ last.result = <<>>

\* the number of times the scan recorded predecessor before current
Recorded(predecessor_counts, current, predecessor) ==
    IF Has(predecessor_counts, current)
       /\ Has(Get(predecessor_counts, current), predecessor)
    THEN Get(Get(predecessor_counts, current), predecessor)
    ELSE 0

RECURSIVE SumValues(_)
SumValues(counter) ==
    IF counter = <<>> THEN 0 ELSE Head(counter).v + SumValues(Tail(counter))

\* the number of observations the scan recorded
RECURSIVE TotalObserved(_)
TotalObserved(predecessor_counts) ==
    IF predecessor_counts = <<>> THEN 0
    ELSE SumValues(Head(predecessor_counts).v) + TotalObserved(Tail(predecessor_counts))

\* n - 1 for every cart of n >= 1 items
RECURSIVE PairsIn(_)
PairsIn(cs) ==
    IF cs = <<>> THEN 0
    ELSE (IF Len(Head(cs)) >= 1 THEN Len(Head(cs)) - 1 ELSE 0) + PairsIn(Tail(cs))

\* C24: the standalone analysis counts a product that follows itself like any
\* other pair: every adjacency (p, curr), p = curr included, is recorded
\* exactly once, so a cart of n items contributes n - 1 observations, and a
\* product that follows itself has an entry.  For the cart [A, A, B] alone
\* the result is A -> (A, 1), B -> (A, 1).
C24_SelfPairCounted ==
    Analyzed =>
        LET predecessor_counts == ScanCarts(<<>>, carts, 1) IN
        /\ \A curr, p \in ProductIds :
               Recorded(predecessor_counts, curr, p) = AdjCount(carts, p, curr)
        /\ TotalObserved(predecessor_counts) = PairsIn(carts)
        /\ \A x \in ProductIds : AdjCount(carts, x, x) > 0 => Has(last.result, x)
        /\ (\E c \in DOMAIN carts :
               /\ carts[c] = <<"A", "A", "B">>
               /\ \A d \in DOMAIN carts \ {c} : carts[d] = <<>>)
           => last.result =
                <<[k |-> "A", v |-> [product_id |-> "A", most_common_predecessor |-> "A",
                                     occurrences |-> 1]],
                  [k |-> "B", v |-> [product_id |-> "B", most_common_predecessor |-> "A",
                                     occurrences |-> 1]]>>

\* the analysis ran on the cart [A, A, B] and an empty cart
C24_Witness ==
    /\ Analyzed
    /\ \E c \in DOMAIN carts :
           /\ carts[c] = <<"A", "A", "B">>
           /\ \A d \in DOMAIN carts \ {c} : carts[d] = <<>>
    /\ Len(last.result) = 2

OtherCartsUnchanged(c) == \A d \in DOMAIN db \ {c} : db'[d] = db[d]

\* C25: update_item_quantity(product, q) with q <= 0 removes the product's
\* item and returns what remove_item returns (whether an item was removed);
\* with q > 0 and the product in the cart it sets that item's quantity to q,
\* changes no other item and no position, and returns the item; with q > 0
\* and the product not in the cart it returns None and creates no item.
C25_UpdateItemQuantity ==
    [][last'.op = "update_item_quantity" =>
          LET c == last'.cart
              product == last'.product
              quantity == last'.quantity IN
          /\ OtherCartsUnchanged(c)
          /\ IF quantity <= 0
             THEN /\ db'[c] = SelectSeq(db[c], LAMBDA item : ~IsItemOf(item, product))
                  /\ last'.result = InCart(c, product)
             ELSE IF InCart(c, product)
             THEN /\ Len(db'[c]) = Len(db[c])
                  /\ \A i \in DOMAIN db[c] :
                         IF IsItemOf(db[c][i], product)
                         THEN /\ IsItemOf(db'[c][i], product)
                              /\ db'[c][i].quantity = quantity
                              /\ last'.result = db'[c][i]
                         ELSE db'[c][i] = db[c][i]
             ELSE /\ db'[c] = db[c]
                  /\ last'.result = None]_vars

\* update_item_quantity lowered the quantity of the first of two items
C25_Witness ==
    /\ last.op = "update_item_quantity"
    /\ last.quantity = 1
    /\ Len(db[last.cart]) = 2
    /\ IsItemOf(db[last.cart][1], last.product)
    /\ db[last.cart][1] = last.result
    /\ db[last.cart][1].quantity = 1
    /\ db[last.cart][2].quantity = 2

\* update_item_quantity with quantity 0 removed an item and left another
C25_WitnessRemoved ==
    /\ last.op = "update_item_quantity"
    /\ last.quantity = 0
    /\ last.result = TRUE
    /\ \E c \in DOMAIN db : Len(db[c]) = 1

\* update_item_quantity for a product that is not in the cart returned None
C25_WitnessAbsent ==
    /\ last.op = "update_item_quantity"
    /\ last.quantity > 0
    /\ ~InCart(last.cart, last.product)
    /\ last.result = None
    /\ \E c \in DOMAIN db : Len(db[c]) = 1

----------------------------------------------------------------------------
(* Properties of concurrent calls *)

\* C26 (as claimed): when other requests change carts while an analysis pass
\* reads them cart by cart, the returned result is the analysis of the whole
\* collection as it stood at one instant during the call.
C26_ResultIsSnapshot ==
    (ShopAnalyzed /\ pass.at = 0 /\ instants # {}) =>
        \E d \in instants : last.result = shop_analyze_product_sequences(d)

\* C27 (as claimed): every entry of the map returned by the standalone
\* analyze_product_sequences has a most_common_predecessor that is not absent
\* and occurrences >= 1, under a key equal to its product_id, for every input.
C27_EntriesHavePredecessor ==
    Analyzed =>
        \A i \in DOMAIN last.result :
            /\ last.result[i].v.most_common_predecessor # None
            /\ last.result[i].v.occurrences >= 1
            /\ last.result[i].k = last.result[i].v.product_id

\* C28 (as claimed): whatever the interleaving of two concurrent
\* add_item(product, q1) and add_item(product, q2) calls on one cart, the cart
\* ends with exactly one item for the product, of quantity the quantity
\* before the calls plus q1 + q2.
C28_NoIncrementLost ==
    (inflight # <<>> /\ \A p \in DOMAIN inflight : inflight[p].pc = "done") =>
        LET call == inflight[1]
            rows == {i \in DOMAIN db[call.cart] : IsItemOf(db[call.cart][i], call.product)} IN
        /\ Cardinality(rows) = 1
        /\ \A i \in rows :
              db[call.cart][i].quantity =
                  call.before + inflight[1].quantity + inflight[2].quantity

----------------------------------------------------------------------------
(* Properties relating the Cart operations to the analyses *)

\* the products of a cart's rows, in added_at order
Products(items) ==
    [i \in DOMAIN items |-> <<items[i].content_type, items[i].object_id>>]

\* the carts with every quantity replaced by 1
UnitQuantities(cs) ==
    [c \in DOMAIN cs |-> [i \in DOMAIN cs[c] |-> [cs[c][i] EXCEPT !.quantity = 1]]]

\* what every analysis returns on the carts, for every argument
AnalysesOf(cs) ==
    [sequences |-> shop_analyze_product_sequences(cs),
     recommendations |->
        [product_id \in QueryIds |->
            [limit \in 1..MaxLimit |-> get_product_recommendations(product_id, cs, limit)]],
     similarity |->
        [c1 \in DOMAIN cs |-> [c2 \in DOMAIN cs |-> get_cart_similarity_score(cs[c1], cs[c2])]],
     together |->
        [min_frequency \in 1..MaxMinFreq |->
            find_frequently_bought_together(cs, min_frequency)]]

C29_WitnessUpdated ==
    /\ last.op = "update_item_quantity"
    /\ last.quantity = 2
    /\ Len(db[1]) = 2
    /\ IsItemOf(db[1][1], last.product)
    /\ db[1][1].quantity = 2

\* C30: the two follower analyses of recommendations.py agree.  For every
\* cart collection and every product p, analyze_product_sequences(carts) has
\* an entry for p exactly when get_product_recommendations(p, carts, 1) is not
\* empty, and then the entry is the single element of that list and the first
\* element of get_product_recommendations(p, carts, k) for every k >= 1.
C30_FollowerAnalysesAgree ==
    /\ ShopAnalyzed =>
          \A p \in QueryIds :
              /\ Has(last.result, p) <=> get_product_recommendations(p, AllCarts, 1) # <<>>
              /\ Has(last.result, p) =>
                    \A k \in 1..MaxLimit :
                        LET r == get_product_recommendations(p, AllCarts, k) IN
                        /\ r # <<>>
                        /\ k = 1 => Len(r) = 1
                        /\ Get(last.result, p) = <<r[1].k, r[1].v>>
    /\ (Recommended /\ last.limit >= 1) =>
          LET a == shop_analyze_product_sequences(AllCarts) IN
          /\ Has(a, last.product_id) <=> last.result # <<>>
          /\ last.result # <<>> =>
                Get(a, last.product_id) = <<last.result[1].k, last.result[1].v>>

\* analyze_product_sequences returned an entry for a product that has two
\* different followers
C30_Witness ==
    /\ ShopAnalyzed
    /\ \E p \in QueryIds :
          /\ Has(last.result, p)
          /\ Len(get_product_recommendations(p, AllCarts, MaxLimit)) >= 2

\* get_product_recommendations returned two followers
C30_WitnessRecommended ==
    /\ Recommended
    /\ last.limit >= 2
    /\ Len(last.result) >= 2
    /\ Has(shop_analyze_product_sequences(AllCarts), last.product_id)

====
